---- MODULE Spec2Model ----
(***************************************************************************)
(* A model of the sc2mp3 content script: client-id scraping, download      *)
(* button injection, and the per-click download chain                      *)
(* (resolve -> native download | transcoding -> finalize -> media -> save).*)
(* Strings whose contents the code inspects (titles, user names, URL       *)
(* paths) are sequences of one-character strings; opaque values (tokens,   *)
(* client ids) are TLA+ strings.                                           *)
(***************************************************************************)
EXTENDS Integers, Sequences, FiniteSets, TLC

VARIABLES
    scripts,     \* document.getElementsByTagName("script"), in document order
    location,    \* window.location pathname
    bars,        \* the .soundActions elements of the page
    mutations,   \* added nodes recorded by the MutationObserver, not yet delivered
    observing,   \* whether observer.observe(document.body, ...) has run
    initPc,      \* position of init(): "scraping", "ready" or "failed"
    scrapeIdx,   \* index of the script scrapeClientId() is looking at
    clientId,    \* the global clientId
    enableHQ,    \* browser.storage.sync "enableHQ"
    cookie,      \* document.cookie, a sequence of key/value pairs
    acts         \* one record per button click: the async chain it started

vars == <<scripts, location, bars, mutations, observing, initPc, scrapeIdx,
          clientId, enableHQ, cookie, acts>>

\* ------------------------------------------------------------------ bounds
MaxActions == 2
MaxScripts == 2
MaxBars == 1
MaxTranscodings == 3
MaxTitleLen == 4

\* ------------------------------------------------------------ JS values
Null == "null"
Undefined == "undefined"

\* ------------------------------------------------------- string helpers
SeqsUpTo(S, n) == UNION {[1..k -> S] : k \in 0..n}

\* String.prototype.includes
Includes(s, sub) ==
    \E i \in 0..(Len(s) - Len(sub)) :
        \A j \in 1..Len(sub) : s[i + j] = sub[j]

\* String.prototype.lastIndexOf for a one-character needle (0-based, -1 if absent)
LastIndexOf(s, c) ==
    LET hits == {i \in 1..Len(s) : s[i] = c}
    IN IF hits = {} THEN -1
       ELSE (CHOOSE i \in hits : \A j \in hits : j <= i) - 1

\* String.prototype.substring(from) (0-based)
Substring(s, from) == SubSeq(s, from + 1, Len(s))

SEP == <<" ", "-", " ">>
SETS == <<"/", "s", "e", "t", "s", "/">>
DOT == <<".">>

\* ------------------------------------------------------ pure functions
NoTranscoding == [protocol |-> Null, quality |-> Null, url |-> 0]

pickTranscodingAnyProtocol(trackObj, quality) ==
    LET ts == trackObj.transcodings
        ok == {i \in 1..Len(ts) : ts[i].quality = quality}
    IN IF ok = {} THEN NoTranscoding
       ELSE ts[CHOOSE i \in ok : \A j \in ok : i <= j]

\* pickTranscoding(trackObj, quality): the first progressive transcoding of
\* that quality, or null
pickTranscoding(trackObj, quality) ==
    LET ts == trackObj.transcodings
        ok == {i \in 1..Len(ts) :
                 ts[i].protocol = "progressive" /\ ts[i].quality = quality}
    IN IF ok = {} THEN NoTranscoding
       ELSE ts[CHOOSE i \in ok : \A j \in ok : i <= j]

chooseTranscodingSqFirst(trackObj) ==
    IF pickTranscoding(trackObj, "sq") # NoTranscoding
    THEN pickTranscoding(trackObj, "sq")
    ELSE pickTranscoding(trackObj, "hq")

\* pickTranscoding(trackObj, "hq") || pickTranscoding(trackObj, "sq")
chooseTranscoding(trackObj) ==
    IF pickTranscoding(trackObj, "hq") # NoTranscoding
    THEN pickTranscoding(trackObj, "hq")
    ELSE pickTranscoding(trackObj, "sq")

getTrackNameAnyDash(trackObj) ==
    IF ~Includes(trackObj.title, <<"-">>)
    THEN trackObj.username \o SEP \o trackObj.title
    ELSE trackObj.title

\* getTrackName(trackObj)
getTrackName(trackObj) ==
    IF ~Includes(trackObj.title, SEP)
    THEN trackObj.username \o SEP \o trackObj.title
    ELSE trackObj.title

\* path.substring(path.lastIndexOf(".") + 1)
extensionOf(path) == Substring(path, LastIndexOf(path, ".") + 1)

\* `${name}.${extension}`
makeFilename(trackObj, path) == getTrackName(trackObj) \o DOT \o extensionOf(path)

\* getCookie(key): the value of the first "key=value" pair with a non-empty
\* value, or null
getCookie(jar, key) ==
    LET ok == {i \in 1..Len(jar) : jar[i].key = key /\ jar[i].value # ""}
    IN IF ok = {} THEN Null
       ELSE jar[CHOOSE i \in ok : \A j \in ok : i <= j].value

\* getTrackUrlForElement(actionDiv): the container's title link, else the page URL
getTrackUrlForElement(bar, loc) ==
    IF bar.titleHref # <<>> THEN bar.titleHref ELSE loc

\* the elements .querySelectorAll(".soundActions") finds under a node
actionDivsUnder(node, bs) ==
    CASE node.type = "body" -> {b \in DOMAIN bs : bs[b].attached}
      [] node.type = "bar" -> {b \in {node.bar} : bs[b].attached}
      [] OTHER -> {}

needsButtonUnchecked(bar, loc) ==
    /\ bar.like
    /\ ~Includes(getTrackUrlForElement(bar, loc), SETS)

\* whether injectDownloadButton adds a button to this action bar
needsButton(bar, loc) ==
    /\ Len(bar.buttons) = 0
    /\ bar.like
    /\ ~Includes(getTrackUrlForElement(bar, loc), SETS)

newButton(bar, loc) ==
    [text |-> "Download", selected |-> FALSE,
     trackUrl |-> getTrackUrlForElement(bar, loc)]

\* injectDownloadButton(elem) for every elem of `nodes`: the resulting action bars
injectDownloadButton(nodes, bs, loc) ==
    LET hit == UNION {actionDivsUnder(n, bs) : n \in {m \in nodes : m.type # "text"}}
    IN [b \in DOMAIN bs |->
          IF b \in hit /\ needsButton(bs[b], loc)
          THEN [bs[b] EXCEPT !.buttons = Append(@, newButton(bs[b], loc))]
          ELSE bs[b]]

\* the nodes whose insertion the observer records when `old` becomes `new`
insertedButtons(old, new) ==
    {[type |-> "button", bar |-> b] : b \in {c \in DOMAIN old :
                                             Len(new[c].buttons) > Len(old[c].buttons)}}

\* ------------------------------------------------------------- page load
BodyNode == [type |-> "body", bar |-> 0]

\* init() after scrapeClientId() returned id: set the global, install the
\* observer, inject into document.body
InitReady(id) ==
    LET nb == injectDownloadButton({BodyNode}, bars, location)
    IN /\ clientId' = id
       /\ observing' = TRUE
       /\ bars' = nb
       /\ mutations' = mutations \cup insertedButtons(bars, nb)
       /\ initPc' = "ready"

\* scrapeClientId(): an inline script (script.src === "") is skipped
ScrapeSkipInline ==
    /\ initPc = "scraping" /\ scrapeIdx <= Len(scripts)
    /\ scripts[scrapeIdx].src = ""
    /\ scrapeIdx' = scrapeIdx + 1
    /\ UNCHANGED <<scripts, location, bars, mutations, observing, initPc,
                   clientId, enableHQ, cookie, acts>>

\* scrapeClientId(): fetch(script.src) throws, the script is skipped
ScrapeFetchThrows ==
    /\ initPc = "scraping" /\ scrapeIdx <= Len(scripts)
    /\ scripts[scrapeIdx].src # "" /\ scripts[scrapeIdx].fetchThrows
    /\ scrapeIdx' = scrapeIdx + 1
    /\ UNCHANGED <<scripts, location, bars, mutations, observing, initPc,
                   clientId, enableHQ, cookie, acts>>

\* scrapeClientId(): the script's text does not match the client_id pattern
ScrapeNoMatch ==
    /\ initPc = "scraping" /\ scrapeIdx <= Len(scripts)
    /\ scripts[scrapeIdx].src # "" /\ ~scripts[scrapeIdx].fetchThrows
    /\ scripts[scrapeIdx].match = Null
    /\ scrapeIdx' = scrapeIdx + 1
    /\ UNCHANGED <<scripts, location, bars, mutations, observing, initPc,
                   clientId, enableHQ, cookie, acts>>

\* scrapeClientId(): the script's text matches; init() goes on with match[1]
ScrapeMatch ==
    /\ initPc = "scraping" /\ scrapeIdx <= Len(scripts)
    /\ scripts[scrapeIdx].src # "" /\ ~scripts[scrapeIdx].fetchThrows
    /\ scripts[scrapeIdx].match # Null
    /\ InitReady(scripts[scrapeIdx].match)
    /\ UNCHANGED <<scripts, location, scrapeIdx, enableHQ, cookie, acts>>

ScrapeExhaustedReturns ==
    /\ initPc = "scraping" /\ scrapeIdx > Len(scripts)
    /\ InitReady(Undefined)
    /\ UNCHANGED <<scripts, location, scrapeIdx, enableHQ, cookie, acts>>

\* scrapeClientId(): the loop ends without a match and throws; init() rejects
ScrapeExhausted ==
    /\ initPc = "scraping" /\ scrapeIdx > Len(scripts)
    /\ initPc' = "failed"
    /\ UNCHANGED <<scripts, location, bars, mutations, observing, scrapeIdx,
                   clientId, enableHQ, cookie, acts>>

\* the page inserts (or re-inserts) the subtree holding action bar b; the
\* observer, once installed, records the added node
PageInsertsBar(b) ==
    /\ b \in DOMAIN bars
    /\ ~bars[b].attached \/ (observing /\ [type |-> "bar", bar |-> b] \notin mutations)
    /\ bars' = [bars EXCEPT ![b].attached = TRUE]
    /\ mutations' = IF observing
                    THEN mutations \cup {[type |-> "bar", bar |-> b]}
                    ELSE mutations
    /\ UNCHANGED <<scripts, location, observing, initPc, scrapeIdx, clientId,
                   enableHQ, cookie, acts>>

\* the MutationObserver callback: injectDownloadButton on every added node
ObserverCallback ==
    /\ mutations # {}
    /\ LET nb == injectDownloadButton(mutations, bars, location)
       IN /\ bars' = nb
          /\ mutations' = insertedButtons(bars, nb)
    /\ UNCHANGED <<scripts, location, observing, initPc, scrapeIdx, clientId,
                   enableHQ, cookie, acts>>

\* options page: a radio's change handler stores e.target.value !== "0"
OptionsChange(value) ==
    /\ enableHQ # (value # "0")
    /\ enableHQ' = (value # "0")
    /\ UNCHANGED <<scripts, location, bars, mutations, observing, initPc,
                   scrapeIdx, clientId, cookie, acts>>

\* the user logs in or out of the site: document.cookie changes
CookieChange(jar) ==
    /\ cookie # jar
    /\ cookie' = jar
    /\ UNCHANGED <<scripts, location, bars, mutations, observing, initPc,
                   scrapeIdx, clientId, enableHQ, acts>>

\* -------------------------------------------------------- download chain
NoTrack == [id |-> 0, title |-> <<>>, username |-> <<>>, downloadable |-> FALSE,
            has_downloads_left |-> FALSE, transcodings |-> <<>>]

NoError == [message |-> "", at |-> "", status |-> 0]

\* the status of the response each request of a chain got (0: none)
NoResp == [resolve |-> 0, native |-> 0, finalize |-> 0, media |-> 0]

\* String(undefined): what a.download holds after downloadUrl(url) without a filename
UndefinedName == <<"u", "n", "d", "e", "f", "i", "n", "e", "d">>

\* resp.ok
Ok(status) == status >= 200 /\ status <= 299

fetchJsonNeverThrows(status) == FALSE

\* fetchJson: if (!resp.ok) throw
fetchJsonThrows(status) == ~Ok(status)

\* the act after the request it waits on got a response of this status
responded(act, status) ==
    [act EXCEPT !.resp = [f \in DOMAIN @ |-> IF f = act.pc THEN status ELSE @[f]]]

\* the request fetchAuthorizedJson(url, authToken, args) sends: an Authorization
\* header unless authToken is null, and the global clientId in the query
authorizedRequest(api, authToken, target, path) ==
    [api |-> api, auth |-> authToken, client_id |-> clientId,
     target |-> target, path |-> path]

\* the request of a bare fetch(url)
plainRequest(path) ==
    [api |-> "media", auth |-> Null, client_id |-> Null, target |-> 0, path |-> path]

\* the local frame downloadTrack(trackUrl) starts with
newAct(b, i) ==
    [bar |-> b, btn |-> i, trackUrl |-> bars[b].buttons[i].trackUrl,
     pc |-> "storage", settings |-> FALSE, authToken |-> Null,
     trackObj |-> NoTrack, transcoding |-> NoTranscoding, filename |-> <<>>,
     resp |-> NoResp, calls |-> <<>>, log |-> <<>>, saved |-> <<>>,
     error |-> NoError]

\* button.innerText / classList as the onclick handler's try/catch/finally leaves them
setButton(b, i, text, selected) ==
    bars' = [bars EXCEPT ![b].buttons[i].text = text,
                         ![b].buttons[i].selected = selected]

\* the chain of act a ends: downloadTrack resolved
finish(a, act) ==
    /\ acts' = [acts EXCEPT ![a] = [act EXCEPT !.pc = "done"]]
    /\ setButton(act.bar, act.btn, "Download", FALSE)

\* the chain of act a ends: downloadTrack rejected, the handler shows the failure
fail(a, act, message, status) ==
    /\ acts' = [acts EXCEPT ![a] =
                  [act EXCEPT !.pc = "failed",
                              !.error = [message |-> message, at |-> act.pc,
                                         status |-> status]]]
    /\ setButton(act.bar, act.btn, "Failed :-(", FALSE)

\* button.onclick: show progress and call downloadTrack(trackUrl), which
\* suspends on browser.storage.sync.get
Click(b, i) ==
    /\ Len(acts) < MaxActions
    /\ b \in DOMAIN bars /\ i \in 1..Len(bars[b].buttons)
    /\ acts' = Append(acts, newAct(b, i))
    /\ setButton(b, i, "Downloading...", TRUE)
    /\ UNCHANGED <<scripts, location, mutations, observing, initPc, scrapeIdx,
                   clientId, enableHQ, cookie>>

readAuthTokenAlways(hq, jar) == getCookie(jar, "oauth_token")

\* the token downloadTrack passes on: the cookie if enableHQ is set, else null
readAuthToken(hq, jar) == IF hq THEN getCookie(jar, "oauth_token") ELSE Null

\* downloadTrack: the settings arrive; read the cookie if enableHQ, send resolve
StorageGet(a) ==
    /\ a \in 1..Len(acts) /\ acts[a].pc = "storage"
    /\ LET tok == readAuthToken(enableHQ, cookie)
       IN acts' = [acts EXCEPT
            ![a].pc = "resolve",
            ![a].settings = enableHQ,
            ![a].authToken = tok,
            ![a].log = Append(@, authorizedRequest("resolve", tok, 0, acts[a].trackUrl))]
    /\ UNCHANGED <<scripts, location, bars, mutations, observing, initPc,
                   scrapeIdx, clientId, enableHQ, cookie>>

\* downloadTrack: browser.storage.sync.get rejects
StorageFails(a) ==
    /\ a \in 1..Len(acts) /\ acts[a].pc = "storage"
    /\ fail(a, acts[a], "storage", 0)
    /\ UNCHANGED <<scripts, location, mutations, observing, initPc, scrapeIdx,
                   clientId, enableHQ, cookie>>

FetchJsonFailsRetries(a, status, parses) ==
    /\ a \in 1..Len(acts) /\ acts[a].pc \in {"resolve", "native", "finalize"}
    /\ acts' = [acts EXCEPT ![a].log = Append(@, @[Len(@)])]
    /\ UNCHANGED <<scripts, location, bars, mutations, observing, initPc,
                   scrapeIdx, clientId, enableHQ, cookie>>

\* fetchJson: fetch() rejects (status 0), or the response is not ok and
\* fetchJson throws, or resp.json() rejects
FetchJsonFails(a, status, parses) ==
    /\ a \in 1..Len(acts) /\ acts[a].pc \in {"resolve", "native", "finalize"}
    /\ \/ status = 0 /\ parses /\ fail(a, acts[a], "network", 0)
       \/ /\ status # 0 /\ fetchJsonThrows(status) /\ parses
          /\ fail(a, responded(acts[a], status), "Request failed", status)
       \/ /\ status # 0 /\ ~fetchJsonThrows(status) /\ ~parses
          /\ fail(a, responded(acts[a], status), "json", status)
    /\ UNCHANGED <<scripts, location, mutations, observing, initPc, scrapeIdx,
                   clientId, enableHQ, cookie>>

\* downloadTrack: the resolve request returns the track object
ResolveOk(a, status, t) ==
    /\ a \in 1..Len(acts) /\ acts[a].pc = "resolve"
    /\ ~fetchJsonThrows(status)
    /\ acts' = [acts EXCEPT ![a] =
                  [responded(acts[a], status) EXCEPT !.pc = "select", !.trackObj = t]]
    /\ UNCHANGED <<scripts, location, bars, mutations, observing, initPc,
                   scrapeIdx, clientId, enableHQ, cookie>>

isNativeIgnoringQuota(trackObj) == trackObj.downloadable

\* the condition under which downloadTrack takes the native path
isNative(trackObj) == trackObj.downloadable /\ trackObj.has_downloads_left

\* the token downloadNative passes to fetchAuthorizedJson
nativeToken(authToken) == Null

\* downloadTrack: native download if downloadable with downloads left ...
SelectNative(a) ==
    /\ a \in 1..Len(acts) /\ acts[a].pc = "select"
    /\ isNative(acts[a].trackObj)
    /\ acts' = [acts EXCEPT
         ![a].pc = "native",
         ![a].calls = Append(@, "downloadNative"),
         ![a].log = Append(@, authorizedRequest("download",
                         nativeToken(acts[a].authToken), acts[a].trackObj.id, <<>>))]
    /\ UNCHANGED <<scripts, location, bars, mutations, observing, initPc,
                   scrapeIdx, clientId, enableHQ, cookie>>

\* the pickTranscoding calls of downloadTrackTranscoding ("sq" only if "hq" gave null)
pickCalls(trackObj) ==
    IF pickTranscoding(trackObj, "hq") # NoTranscoding
    THEN <<"downloadTrackTranscoding", "pickTranscoding(hq)">>
    ELSE <<"downloadTrackTranscoding", "pickTranscoding(hq)", "pickTranscoding(sq)">>

finalizeTokenReread(authToken) == readAuthToken(enableHQ, cookie)

\* the token downloadTrackTranscoding passes to fetchAuthorizedJson: its
\* authToken parameter, the value downloadTrack read
finalizeToken(authToken) == authToken

\* ... else downloadTrackTranscoding: pick a transcoding and send finalize
SelectTranscoding(a) ==
    /\ a \in 1..Len(acts) /\ acts[a].pc = "select"
    /\ ~isNative(acts[a].trackObj)
    /\ chooseTranscoding(acts[a].trackObj) # NoTranscoding
    /\ LET tr == chooseTranscoding(acts[a].trackObj)
       IN acts' = [acts EXCEPT
            ![a].pc = "finalize",
            ![a].calls = @ \o pickCalls(acts[a].trackObj),
            ![a].transcoding = tr,
            ![a].log = Append(@, authorizedRequest("finalize",
                                 finalizeToken(acts[a].authToken),
                                                   tr.url, <<>>))]
    /\ UNCHANGED <<scripts, location, bars, mutations, observing, initPc,
                   scrapeIdx, clientId, enableHQ, cookie>>

\* ... and throws "Failed to find a valid transcoding" when there is none
SelectNone(a) ==
    /\ a \in 1..Len(acts) /\ acts[a].pc = "select"
    /\ ~isNative(acts[a].trackObj)
    /\ chooseTranscoding(acts[a].trackObj) = NoTranscoding
    /\ acts' = [acts EXCEPT
         ![a].pc = "failed",
         ![a].calls = @ \o pickCalls(acts[a].trackObj),
         ![a].error = [message |-> "Failed to find a valid transcoding",
                       at |-> "select", status |-> 0]]
    /\ setButton(acts[a].bar, acts[a].btn, "Failed :-(", FALSE)
    /\ UNCHANGED <<scripts, location, mutations, observing, initPc, scrapeIdx,
                   clientId, enableHQ, cookie>>

nativeFilenameDerived(trackObj) == getTrackName(trackObj) \o DOT \o <<"m", "p", "3">>

\* the filename downloadNative hands to downloadUrl: none
nativeFilename(trackObj) == UndefinedName

\* downloadNative: the download request returns; downloadUrl(json["redirectUri"])
NativeOk(a, status) ==
    /\ a \in 1..Len(acts) /\ acts[a].pc = "native"
    /\ ~fetchJsonThrows(status)
    /\ finish(a, [responded(acts[a], status) EXCEPT
         !.saved = Append(@, [url |-> "redirectUri",
                              filename |-> nativeFilename(acts[a].trackObj)])])
    /\ UNCHANGED <<scripts, location, mutations, observing, initPc, scrapeIdx,
                   clientId, enableHQ, cookie>>

\* downloadTrackTranscoding: the finalize request returns the file URL; build
\* the filename and fetch the file
FinalizeOk(a, status, path) ==
    /\ a \in 1..Len(acts) /\ acts[a].pc = "finalize"
    /\ ~fetchJsonThrows(status)
    /\ acts' = [acts EXCEPT ![a] =
                  [responded(acts[a], status) EXCEPT
                     !.pc = "media",
                     !.filename = makeFilename(acts[a].trackObj, path),
                     !.log = Append(@, plainRequest(path))]]
    /\ UNCHANGED <<scripts, location, bars, mutations, observing, initPc,
                   scrapeIdx, clientId, enableHQ, cookie>>

\* downloadTrackTranscoding: the finalize response has no usable "url";
\* new URL(url) throws
FinalizeBadUrl(a, status) ==
    /\ a \in 1..Len(acts) /\ acts[a].pc = "finalize"
    /\ ~fetchJsonThrows(status)
    /\ fail(a, responded(acts[a], status), "Invalid URL", 0)
    /\ UNCHANGED <<scripts, location, mutations, observing, initPc, scrapeIdx,
                   clientId, enableHQ, cookie>>

\* downloadTrackTranscoding: fetch(url) rejects
MediaNetworkError(a) ==
    /\ a \in 1..Len(acts) /\ acts[a].pc = "media"
    /\ fail(a, acts[a], "network", 0)
    /\ UNCHANGED <<scripts, location, mutations, observing, initPc, scrapeIdx,
                   clientId, enableHQ, cookie>>

\* downloadTrackTranscoding: fetch(url) returns a response of any status; its
\* body becomes a blob and downloadUrl(blobUrl, filename) saves it
MediaResponse(a, status) ==
    /\ a \in 1..Len(acts) /\ acts[a].pc = "media"
    /\ finish(a, [responded(acts[a], status) EXCEPT
         !.saved = Append(@, [url |-> "blob", filename |-> acts[a].filename])])
    /\ UNCHANGED <<scripts, location, mutations, observing, initPc, scrapeIdx,
                   clientId, enableHQ, cookie>>

\* ------------------------------------------------------------- inputs
InlineScript == [src |-> "", fetchThrows |-> FALSE, match |-> Null]
ThrowingScript == [src |-> "ext", fetchThrows |-> TRUE, match |-> Null]
PlainScript == [src |-> "ext", fetchThrows |-> FALSE, match |-> Null]
MatchScript(id) == [src |-> "ext", fetchThrows |-> FALSE, match |-> id]
ScriptKinds == {InlineScript, ThrowingScript, PlainScript,
                MatchScript("idA"), MatchScript("idB")}

TrackPath == <<"/", "u", "/", "t">>
SetPath == <<"/", "u", "/", "s", "e", "t", "s", "/", "p">>

BarKinds == [like : BOOLEAN, titleHref : {<<>>, TrackPath, SetPath},
             attached : BOOLEAN, buttons : {<<>>}]

JarOut == <<[key |-> "sc_anonymous_id", value |-> "anon"]>>
JarIn == <<[key |-> "sc_anonymous_id", value |-> "anon"],
           [key |-> "oauth_token", value |-> "tokA"]>>
JarEmpty == <<[key |-> "oauth_token", value |-> ""]>>

Statuses == {200, 404}

Mp3Path == <<"/", "f", ".", "m", "p", "3">>
M4aPath == <<"/", "f", ".", "m", "4", "a">>
BarePath == <<"/", "f">>

Transcoding(protocol, quality, url) ==
    [protocol |-> protocol, quality |-> quality, url |-> url]

TranscodingKinds == [protocol : {"progressive", "hls"}, quality : {"hq", "sq"}]

\* a transcodings list: the i-th entry's url is i
Transcodings(kinds) ==
    [i \in 1..Len(kinds) |-> Transcoding(kinds[i].protocol, kinds[i].quality, i)]

Track(id, title, username, downloadable, left, kinds) ==
    [id |-> id, title |-> title, username |-> username,
     downloadable |-> downloadable, has_downloads_left |-> left,
     transcodings |-> Transcodings(kinds)]

Hls(q) == [protocol |-> "hls", quality |-> q]
Prog(q) == [protocol |-> "progressive", quality |-> q]

DepartureRemix == <<"D","e","p","a","r","t","u","r","e"," ","R","e","m","i","x">>
NightDrive == <<"D","J"," ","S","n","a","k","e"," ","-"," ","N","i","g","h","t",
                " ","D","r","i","v","e">>
Choicescarf == <<"c","h","o","i","c","e","s","c","a","r","f">>

\* the tracks of the default specification
MainTracks ==
    { Track(1, DepartureRemix, Choicescarf, FALSE, FALSE, <<Hls("hq"), Prog("sq")>>),
      Track(2, NightDrive, Choicescarf, TRUE, TRUE, <<Prog("sq")>>),
      Track(3, DepartureRemix, Choicescarf, TRUE, FALSE, <<Hls("sq"), Hls("hq")>>),
      Track(4, NightDrive, Choicescarf, FALSE, TRUE, <<Prog("sq"), Prog("hq")>>) }

\* every transcodings list up to MaxTranscodings, under every flag combination
SelectTracks ==
    { Track(1, DepartureRemix, Choicescarf, d, l, kinds) :
        d \in BOOLEAN, l \in BOOLEAN,
        kinds \in SeqsUpTo(TranscodingKinds, MaxTranscodings) }

\* every title up to MaxTitleLen over an alphabet holding the separator's characters
NameTracks ==
    { Track(1, title, username, d, d, kinds) :
        title \in SeqsUpTo({" ", "-", "a"}, MaxTitleLen) \ {<<>>},
        username \in {<<"u">>, <<"a", "-", "b">>},
        d \in BOOLEAN,
        kinds \in {<<>>, <<Prog("sq")>>} }

\* --------------------------------------------------------- specifications
InitWith(Scripts, Locations, Bars, Jars) ==
    /\ scripts \in Scripts
    /\ location \in Locations
    /\ bars \in Bars
    /\ mutations = {}
    /\ observing = FALSE
    /\ initPc = "scraping"
    /\ scrapeIdx = 1
    /\ clientId = Undefined
    /\ enableHQ \in BOOLEAN
    /\ cookie \in Jars
    /\ acts = <<>>

PageNext ==
    \/ ScrapeSkipInline
    \/ ScrapeFetchThrows
    \/ ScrapeNoMatch
    \/ ScrapeMatch
    \/ ScrapeExhausted
    \/ \E b \in DOMAIN bars : PageInsertsBar(b)
    \/ ObserverCallback

\* the steps of the download chains, over the given server responses
ChainNext(Tracks, Paths, Failures) ==
    \/ \E a \in 1..Len(acts) : StorageGet(a)
    \/ \E a \in 1..Len(acts) : StorageFails(a)
    \/ \E a \in 1..Len(acts), f \in Failures : FetchJsonFails(a, f[1], f[2])
    \/ \E a \in 1..Len(acts), st \in Statuses, t \in Tracks : ResolveOk(a, st, t)
    \/ \E a \in 1..Len(acts) : SelectNative(a)
    \/ \E a \in 1..Len(acts) : SelectTranscoding(a)
    \/ \E a \in 1..Len(acts) : SelectNone(a)
    \/ \E a \in 1..Len(acts), st \in Statuses : NativeOk(a, st)
    \/ \E a \in 1..Len(acts), st \in Statuses, p \in Paths : FinalizeOk(a, st, p)
    \/ \E a \in 1..Len(acts), st \in Statuses : FinalizeBadUrl(a, st)
    \/ \E a \in 1..Len(acts) : MediaNetworkError(a)
    \/ \E a \in 1..Len(acts), st \in Statuses : MediaResponse(a, st)

\* one click at most: a single download action
FirstClick(b, i) == acts = <<>> /\ Click(b, i)

\* the default specification: page load, then one download action over every
\* response, with the preference and the cookie changing under it
Init ==
    InitWith({<<InlineScript, MatchScript("idA")>>, <<ThrowingScript, PlainScript>>},
             {TrackPath},
             {<<[like |-> TRUE, titleHref |-> TrackPath, attached |-> at,
                 buttons |-> <<>>]>> : at \in BOOLEAN},
             {JarOut, JarIn, JarEmpty})

Next ==
    \/ PageNext
    \/ \E v \in {"0", "1"} : OptionsChange(v)
    \/ \E j \in {JarOut, JarIn, JarEmpty} : CookieChange(j)
    \/ \E b \in DOMAIN bars : \E i \in 1..Len(bars[b].buttons) : FirstClick(b, i)
    \/ ChainNext(MainTracks, {Mp3Path, M4aPath, BarePath},
                 {<<0, TRUE>>, <<404, TRUE>>, <<200, FALSE>>})

Spec == Init /\ [][Next]_vars

\* a loaded page with one button
InitOne ==
    InitWith({<<MatchScript("idA")>>}, {TrackPath},
             {<<[like |-> TRUE, titleHref |-> <<>>, attached |-> TRUE,
                 buttons |-> <<>>]>>},
             {JarIn})

\* up to MaxActions clicks, overlapping or not, with the preference changing
\* under them
NextClicks ==
    \/ ScrapeMatch
    \/ ObserverCallback
    \/ \E v \in {"0", "1"} : OptionsChange(v)
    \/ \E b \in DOMAIN bars : \E i \in 1..Len(bars[b].buttons) : Click(b, i)
    \/ ChainNext({t \in MainTracks : t.id \in {1, 2, 3}}, {Mp3Path}, {<<404, TRUE>>})

SpecClicks == InitOne /\ [][NextClicks]_vars

\* page load over every script list and action bar, each click followed up to
\* its resolve request
InitPage ==
    InitWith(SeqsUpTo(ScriptKinds, MaxScripts), {TrackPath, SetPath},
             [1..MaxBars -> BarKinds], {JarIn})

NextPage ==
    \/ PageNext
    \/ \E b \in DOMAIN bars : \E i \in 1..Len(bars[b].buttons) : Click(b, i)
    \/ \E a \in 1..Len(acts) : StorageGet(a)

SpecPage == InitPage /\ [][NextPage]_vars

\* a single download action over every transcodings list
NextSelect ==
    \/ ScrapeMatch
    \/ ObserverCallback
    \/ \E b \in DOMAIN bars : \E i \in 1..Len(bars[b].buttons) : FirstClick(b, i)
    \/ ChainNext(SelectTracks, {Mp3Path}, {<<404, TRUE>>})

SpecSelect == InitOne /\ [][NextSelect]_vars

\* a single download action over every title
NextName ==
    \/ ScrapeMatch
    \/ ObserverCallback
    \/ \E b \in DOMAIN bars : \E i \in 1..Len(bars[b].buttons) : FirstClick(b, i)
    \/ ChainNext(NameTracks, {Mp3Path, M4aPath, BarePath}, {<<404, TRUE>>})

SpecName == InitOne /\ [][NextName]_vars

\* ------------------------------------------------------------- claims
\* the acts whose chain has decided between the native and the transcoding path
Selected == {a \in 1..Len(acts) :
               \/ acts[a].pc \in {"native", "finalize", "media", "done"}
               \/ acts[a].pc = "failed" /\
                  acts[a].error.at \in {"select", "native", "finalize", "media"}}

Requests(a, api) == {i \in 1..Len(acts[a].log) : acts[a].log[i].api = api}

Called(a, f) == \E i \in 1..Len(acts[a].calls) : acts[a].calls[i] = f

ReadsTranscodings(a) ==
    \/ Called(a, "downloadTrackTranscoding")
    \/ Called(a, "pickTranscoding(hq)")
    \/ Called(a, "pickTranscoding(sq)")
    \/ acts[a].transcoding # NoTranscoding

\* C1: a track with downloadable and has_downloads_left both true is downloaded
\* natively (one download request for its id, no transcoding read, no
\* pickTranscoding or downloadTrackTranscoding call); a track with either flag
\* false goes to downloadTrackTranscoding and sends no native download request.
C1_NativeIffBothFlags ==
    \A a \in Selected :
        LET t == acts[a].trackObj
        IN IF t.downloadable = TRUE /\ t.has_downloads_left = TRUE
           THEN /\ acts[a].calls = <<"downloadNative">>
                /\ Cardinality(Requests(a, "download")) = 1
                /\ \A i \in Requests(a, "download") : acts[a].log[i].target = t.id
                /\ ~ReadsTranscodings(a)
                /\ Requests(a, "finalize") = {} /\ Requests(a, "media") = {}
           ELSE /\ Called(a, "downloadTrackTranscoding")
                /\ Called(a, "pickTranscoding(hq)")
                /\ ~Called(a, "downloadNative")
                /\ Requests(a, "download") = {}

C1_Witness ==
    \E a \in Selected :
        /\ acts[a].trackObj.downloadable /\ acts[a].trackObj.has_downloads_left
        /\ acts[a].trackObj.transcodings # <<>>
        /\ acts[a].pc = "done"

Progressive(t) == {i \in 1..Len(t.transcodings) :
                     t.transcodings[i].protocol = "progressive"}

\* C2: on the transcoding path a track without a progressive transcoding fails
\* with "Failed to find a valid transcoding", whatever HLS transcodings it has,
\* and the action sends no finalize and no media request.
C2_NoProgressiveFails ==
    \A a \in Selected :
        LET t == acts[a].trackObj
        IN (~(t.downloadable /\ t.has_downloads_left) /\ Progressive(t) = {})
           => /\ acts[a].pc = "failed"
              /\ acts[a].error.message = "Failed to find a valid transcoding"
              /\ Requests(a, "finalize") = {} /\ Requests(a, "media") = {}
              /\ acts[a].saved = <<>>

C2_Witness ==
    \E a \in Selected :
        /\ ~acts[a].trackObj.downloadable
        /\ Len(acts[a].trackObj.transcodings) = MaxTranscodings
        /\ Progressive(acts[a].trackObj) = {}
        /\ \E i \in 1..MaxTranscodings : acts[a].trackObj.transcodings[i].quality = "hq"
        /\ acts[a].pc = "failed"

ProgressiveOf(t, q) == {i \in Progressive(t) : t.transcodings[i].quality = q}

\* C3: on the transcoding path a track with a progressive "hq" transcoding gets
\* a progressive "hq" one chosen, wherever it stands in the list and whatever
\* else the list holds; a progressive "sq" one is chosen only when the track
\* has no progressive "hq" transcoding.
C3_HqPreferred ==
    \A a \in Selected :
        LET t == acts[a].trackObj
            c == acts[a].transcoding
        IN ~(t.downloadable /\ t.has_downloads_left) =>
           /\ ProgressiveOf(t, "hq") # {} =>
                /\ c.url \in ProgressiveOf(t, "hq")
                /\ c = t.transcodings[c.url]
                /\ \A i \in Requests(a, "finalize") : acts[a].log[i].target = c.url
                /\ Requests(a, "finalize") # {}
           /\ (c # NoTranscoding /\ c.quality = "sq") =>
                /\ ProgressiveOf(t, "hq") = {}
                /\ c.url \in ProgressiveOf(t, "sq")

C3_Witness ==
    \E a \in Selected :
        LET t == acts[a].trackObj
        IN /\ ~t.downloadable
           /\ Len(t.transcodings) = 3
           /\ t.transcodings[1] = Transcoding("progressive", "sq", 1)
           /\ t.transcodings[2] = Transcoding("hls", "hq", 2)
           /\ t.transcodings[3] = Transcoding("progressive", "hq", 3)
           /\ acts[a].transcoding.url = 3
           /\ acts[a].pc = "done"

\* the title holds " - " somewhere
HasSeparator(title) ==
    \E i \in 1..Len(title) :
        /\ i + 2 <= Len(title)
        /\ title[i] = " " /\ title[i + 1] = "-" /\ title[i + 2] = " "

MediaPath(a) == acts[a].log[CHOOSE i \in Requests(a, "media") : TRUE].path

NativeDone == {a \in 1..Len(acts) :
                 /\ acts[a].trackObj.downloadable
                 /\ acts[a].trackObj.has_downloads_left
                 /\ acts[a].pc = "done"}

IsPrefix(p, q) == Len(p) <= Len(q) /\ SubSeq(q, 1, Len(p)) = p

\* C5 as stated: a native download is saved under the derived filename
\* ("<name>.<ext>").
C5_NativeSavedUnderDerivedName ==
    \A a \in NativeDone :
        \E i \in 1..Len(acts[a].saved) :
            LET f == acts[a].saved[i].filename
                n == getTrackName(acts[a].trackObj) \o <<".">>
            IN IsPrefix(n, f) /\ Len(f) > Len(n)

\* C5 amended: a native download hands the redirect URL to downloadUrl without
\* a filename (a.download is set from undefined); no filename is derived from
\* the track on that path and the file is saved once.
C5_NativeSavedWithoutName ==
    \A a \in NativeDone :
        /\ acts[a].saved = <<[url |-> "redirectUri",
                              filename |-> <<"u", "n", "d", "e", "f", "i", "n", "e", "d">>]>>
        /\ acts[a].filename = <<>>
        /\ Requests(a, "media") = {}

C5_Witness ==
    \E a \in NativeDone :
        /\ acts[a].trackObj.title = NightDrive
        /\ acts[a].saved # <<>>

NonSuccess(status) == status # 0 /\ (status < 200 \/ status > 299)

\* C6: a resolve response of a non-2xx status ends the action as failed at the
\* resolve request ("Request ... failed with result <status>"): the resolve
\* request is the only request of the action, no path was chosen, no
\* transcoding picked and nothing saved.
C6_ResolveErrorFails ==
    \A a \in 1..Len(acts) :
        NonSuccess(acts[a].resp.resolve) =>
            /\ acts[a].pc = "failed"
            /\ acts[a].error = [message |-> "Request failed", at |-> "resolve",
                                status |-> acts[a].resp.resolve]
            /\ Len(acts[a].log) = 1 /\ acts[a].log[1].api = "resolve"
            /\ acts[a].calls = <<>>
            /\ acts[a].transcoding = NoTranscoding
            /\ acts[a].saved = <<>>
            /\ acts[a].trackObj = NoTrack

C6_Witness ==
    \E a \in 1..Len(acts) :
        /\ acts[a].resp.resolve = 404
        /\ acts[a].pc = "failed"
        /\ bars[acts[a].bar].buttons[acts[a].btn].text = "Failed :-("

\* C7: on the transcoding path a non-2xx response to the finalize request or to
\* the media request makes the action fail, and nothing is saved.
C7_BothHopsChecked ==
    \A a \in 1..Len(acts) :
        (NonSuccess(acts[a].resp.finalize) \/ NonSuccess(acts[a].resp.media)) =>
            /\ acts[a].pc = "failed"
            /\ acts[a].saved = <<>>

Fetchable(i) == scripts[i].src # "" /\ ~scripts[i].fetchThrows

Matching == {i \in 1..Len(scripts) : Fetchable(i) /\ scripts[i].match # Null}

NoButtons == \A b \in DOMAIN bars : bars[b].buttons = <<>>

C8_WitnessSecondMatch ==
    /\ initPc = "ready"
    /\ Len(scripts) = 2
    /\ scripts[1].match = "idB" /\ scripts[2].match = "idA"
    /\ \E a \in 1..Len(acts) : acts[a].log # <<>>

HasCookie(jar, key, value) ==
    \E i \in 1..Len(jar) : jar[i].key = key /\ jar[i].value = value

\* C9: the token an action sends is fixed when it reads the preference: it is
\* non-null only if enableHQ was then true and an oauth_token cookie held it,
\* and null with the preference off or without such a cookie; every request of
\* the action carries either no Authorization header or that token, and only
\* with the preference read as true; the media request carries none; the
\* stored preference stays a boolean and the global clientId never holds a
\* cookie value.
C9_TokenOnlyOnOptIn ==
    [][ /\ \A a \in 1..Len(acts) :
             IF acts[a].pc = "storage"
             THEN acts'[a].pc = "resolve" =>
                    /\ acts'[a].settings = enableHQ
                    /\ acts'[a].authToken # Null =>
                         /\ enableHQ = TRUE
                         /\ HasCookie(cookie, "oauth_token", acts'[a].authToken)
                    /\ (enableHQ = FALSE \/
                        \A i \in 1..Len(cookie) : cookie[i].key # "oauth_token")
                       => acts'[a].authToken = Null
             ELSE /\ acts'[a].authToken = acts[a].authToken
                  /\ acts'[a].settings = acts[a].settings
        /\ \A a \in 1..Len(acts') : \A i \in 1..Len(acts'[a].log) :
             LET r == acts'[a].log[i]
             IN /\ r.auth # Null =>
                     /\ acts'[a].settings = TRUE
                     /\ r.auth = acts'[a].authToken
                /\ r.api = "media" => r.auth = Null
        /\ enableHQ' \in BOOLEAN
        /\ \A i \in 1..Len(cookie') : clientId' # cookie'[i].value
      ]_vars

C9_Witness ==
    \E a \in 1..Len(acts) :
        /\ acts[a].settings = TRUE /\ acts[a].authToken = "tokA"
        /\ enableHQ = FALSE /\ cookie = JarOut
        /\ acts[a].pc = "done"
        /\ \E i \in Requests(a, "finalize") : acts[a].log[i].auth = "tokA"

C9_WitnessLoggedOut ==
    \E a \in 1..Len(acts) :
        /\ acts[a].settings = TRUE /\ acts[a].authToken = Null
        /\ Requests(a, "finalize") # {}

\* the state of the spec's state machine an act is in
Phase(act) ==
    CASE act.pc = "storage" -> "Idle"
      [] act.pc = "resolve" -> "Resolving"
      [] act.pc = "select" -> "SelectingRendition"
      [] act.pc \in {"native", "finalize", "media"} -> "Fetching"
      [] act.pc = "done" -> "Saved"
      [] act.pc = "failed" -> "Failed"

PhaseStep == {<<"Idle", "Resolving">>, <<"Resolving", "SelectingRendition">>,
              <<"SelectingRendition", "Fetching">>, <<"Fetching", "Fetching">>,
              <<"Fetching", "Saved">>}

PcStep == {<<"storage", "resolve">>, <<"resolve", "select">>, <<"select", "native">>,
           <<"select", "finalize">>, <<"finalize", "media">>, <<"native", "done">>,
           <<"media", "done">>}

\* C10: every step of an action moves it one state forward along
\* Idle -> Resolving -> SelectingRendition -> Fetching -> Saved, or to Failed,
\* or leaves it alone; an action in Saved or Failed never changes again (no
\* request, no retry, no second save); Saved means saved exactly once; a click
\* appends a fresh action in Idle with no request sent and leaves the others
\* as they are.
C10_StateMachine ==
    [][ /\ Len(acts') >= Len(acts)
        /\ \A a \in 1..Len(acts) :
             \/ acts'[a] = acts[a]
             \/ /\ Phase(acts[a]) \notin {"Saved", "Failed"}
                /\ \/ acts'[a].pc = "failed"
                   \/ /\ <<acts[a].pc, acts'[a].pc>> \in PcStep
                      /\ <<Phase(acts[a]), Phase(acts'[a])>> \in PhaseStep
                /\ Len(acts'[a].log) \in {Len(acts[a].log), Len(acts[a].log) + 1}
                /\ Len(acts'[a].saved) =
                     IF acts'[a].pc = "done" THEN 1 ELSE 0
        /\ Len(acts') > Len(acts) =>
             /\ Len(acts') = Len(acts) + 1
             /\ \A a \in 1..Len(acts) : acts'[a] = acts[a]
             /\ LET n == acts'[Len(acts')]
                IN /\ Phase(n) = "Idle"
                   /\ n.log = <<>> /\ n.saved = <<>> /\ n.calls = <<>>
                   /\ n.trackObj = NoTrack /\ n.authToken = Null
                   /\ n.error = NoError
      ]_vars

C10_Witness ==
    /\ Len(acts) = 2
    /\ acts[1].pc = "failed" /\ acts[1].error.at = "resolve"
    /\ acts[2].pc = "done" /\ Len(acts[2].saved) = 1
    /\ acts[2].bar = acts[1].bar /\ acts[2].btn = acts[1].btn

\* the requests of act a that carry the token downloadTrack decided on
Authorized(act) == {i \in 1..Len(act.log) : act.log[i].api \in {"resolve", "finalize"}}

ButtonNodes == {[type |-> "button", bar |-> b] : b \in DOMAIN bars}

\* the URL an action bar's track is taken from: its title link, else the page
UrlOf(b) == IF bars[b].titleHref = <<>> THEN location ELSE bars[b].titleHref

IsSet(path) ==
    \E i \in 1..Len(path) :
        /\ i + 5 <= Len(path)
        /\ <<path[i], path[i + 1], path[i + 2], path[i + 3], path[i + 4], path[i + 5]>>
              = <<"/", "s", "e", "t", "s", "/">>

\* C12: after any sequence of injections (the call on document.body, observer
\* callbacks on inserted or re-inserted subtrees and on the inserted buttons
\* themselves) every action bar holds at most one download button, and none if
\* it has no like button or its track URL holds "/sets/"; no step adds a button
\* to a bar that has one; a callback leaves only the buttons it inserted to be
\* delivered, and a callback that gets only inserted buttons inserts nothing
\* and leaves nothing to deliver.
C12_OneButtonPerBar ==
    [][ /\ \A b \in DOMAIN bars' :
             /\ Len(bars'[b].buttons) <= 1
             /\ (~bars'[b].like \/ IsSet(UrlOf(b))) => bars'[b].buttons = <<>>
             /\ Len(bars[b].buttons) = 1 => Len(bars'[b].buttons) = 1
        /\ ~(mutations \subseteq mutations') =>
             /\ mutations' \subseteq ButtonNodes
             /\ mutations \subseteq ButtonNodes =>
                  /\ mutations' = {}
                  /\ \A b \in DOMAIN bars : bars'[b].buttons = bars[b].buttons
      ]_vars

C12_Witness ==
    \E b \in DOMAIN bars :
        /\ Len(bars[b].buttons) = 1
        /\ bars[b].buttons[1].text = "Downloading..."
        /\ [type |-> "bar", bar |-> b] \in mutations
        /\ [type |-> "button", bar |-> b] \in mutations

C12_WitnessDrained ==
    \E b \in DOMAIN bars :
        /\ Len(bars[b].buttons) = 1 /\ mutations = {} /\ acts # <<>>

InFlight(b, i) == {a \in 1..Len(acts) :
                     /\ acts[a].bar = b /\ acts[a].btn = i
                     /\ acts[a].pc \notin {"done", "failed"}}

\* C13: a button shows "Downloading..." with the selected class while any
\* action started from it is in flight, and "Download" or "Failed :-(" without
\* the class once none is.
C13_ButtonShowsInFlight ==
    \A b \in DOMAIN bars : \A i \in 1..Len(bars[b].buttons) :
        LET btn == bars[b].buttons[i]
        IN IF InFlight(b, i) # {}
           THEN btn.text = "Downloading..." /\ btn.selected
           ELSE btn.text \in {"Download", "Failed :-("} /\ ~btn.selected

====
